---------------------------- MODULE Spec2Model ----------------------------
(***************************************************************************)
(* The wake-cycle state machine of the Optimus agent template              *)
(* (src/function_app.py): the persisted AgentState, the durable state      *)
(* store with its in-process fallback cache, the wake executor and the     *)
(* task-creation operation and the read operations; and the server table   *)
(* of MCPIntegration (src/mcp_integration.py).                             *)
(*                                                                         *)
(* A Python dict is a TLA+ function whose domain is its set of keys (the   *)
(* empty dict is the function with the empty domain); a list is a          *)
(* sequence; None is Null; an ISO timestamp is the clock reading it was    *)
(* formatted from (isoformat is injective).  Each worker process of the    *)
(* function app is an element of Procs: it owns one copy of the module     *)
(* global _in_memory_state and runs one handler at a time (no handler      *)
(* ever suspends at an await, every awaited coroutine returns at once),    *)
(* while all workers share the state blob.                                 *)
(***************************************************************************)
EXTENDS Integers, Sequences, FiniteSets, TLC

VARIABLES
    configured,   \* AZURE_STORAGE_CONNECTION is set in the environment
    blob,         \* the state blob: [exists, content (a JSON document)]
    mem,          \* mem[p]: worker p's _in_memory_state
    pc,           \* pc[p]: where worker p's current handler stands
    state_data,   \* state_data[p]: what _load_state() returned to p's handler
    st,           \* st[p]: the AgentState object of p's handler
    aliased,      \* aliased[p]: st[p]'s lists are the cache's own list objects
    res,          \* res[p]: the results dict of AgentCore.wake()
    task,         \* task[p]: the task dict built by add_task
    data,         \* data[p]: the dict last returned by st[p].to_dict() to a direct caller
    resp,         \* resp[p]: the last HTTP response p produced
    now,          \* the clock read by datetime.datetime.utcnow()
    wakesDone,    \* wake cycles completed so far
    tasksDone,    \* tasks accepted so far
    nFail,        \* storage faults injected so far
    nRestart,     \* worker restarts so far
    saved,        \* saved[p]: the dict last passed to _save_state in process p
    servers,      \* MCPIntegration.servers: the status of each registered server
    mcp           \* the calls on the MCPIntegration instance: in flight, last returned

vars == <<configured, blob, mem, pc, state_data, st, aliased, res, task, data,
          resp, now, wakesDone, tasksDone, nFail, nRestart, saved, servers, mcp>>

\* The variables of the function app
appVars == <<configured, blob, mem, pc, state_data, st, aliased, res, task, data,
             resp, now, wakesDone, tasksDone, nFail, nRestart, saved>>

-----------------------------------------------------------------------------
(* Bounds of the model *)

MaxEvents == 4
MaxSWEvents == 5
MaxFairEvents == 3
MaxFrameEvents == 4
MaxMcpOps == 4
MaxSeqWakes == 102
MaxSeqTasks == 1
MaxHistLen == 102
MaxUnitWakes == 2
MaxUnitTasks == 2

(* Program constants *)

HistoryCap == 100
RecentWakes == 10
Null == 0

Procs == {"A", "B"}

-----------------------------------------------------------------------------
(* Python dicts and lists *)

EmptyMap == [k \in {} |-> Null]

Truthy(d) == DOMAIN d # {}

Get(d, k, default) == IF k \in DOMAIN d THEN d[k] ELSE default

Min(a, b) == IF a < b THEN a ELSE b

Max(a, b) == IF a > b THEN a ELSE b

\* LastSlice off by one: one entry too many survives
Mut_LastSlice(seq, k) == SubSeq(seq, Max(Len(seq) - k - 1, 0) + 1, Len(seq))

\* seq[-k:] for k > 0
LastSlice(seq, k) == SubSeq(seq, Max(Len(seq) - k, 0) + 1, Len(seq))

-----------------------------------------------------------------------------
(* class AgentState *)

\* AgentState.__init__ forgetting last_wake
Mut_AgentState(sd) ==
    [wake_count   |-> IF Truthy(sd) THEN Get(sd, "wake_count", 0) ELSE 0,
     last_wake    |-> Null,
     active_tasks |-> IF Truthy(sd) THEN Get(sd, "active_tasks", <<>>) ELSE <<>>,
     capabilities |-> IF Truthy(sd) THEN Get(sd, "capabilities", EmptyMap) ELSE EmptyMap,
     wake_history |-> IF Truthy(sd) THEN Get(sd, "wake_history", <<>>) ELSE <<>>]

\* AgentState.__init__: every field is read with dict.get, and an absent or
\* empty state_data yields the defaults.
AgentState(sd) ==
    [wake_count   |-> IF Truthy(sd) THEN Get(sd, "wake_count", 0) ELSE 0,
     last_wake    |-> IF Truthy(sd) THEN Get(sd, "last_wake", Null) ELSE Null,
     active_tasks |-> IF Truthy(sd) THEN Get(sd, "active_tasks", <<>>) ELSE <<>>,
     capabilities |-> IF Truthy(sd) THEN Get(sd, "capabilities", EmptyMap) ELSE EmptyMap,
     wake_history |-> IF Truthy(sd) THEN Get(sd, "wake_history", <<>>) ELSE <<>>]

\* to_dict keeping the first 100 entries instead of the last
Mut_to_dict(s) ==
    [wake_count   |-> s.wake_count,
     last_wake    |-> s.last_wake,
     active_tasks |-> s.active_tasks,
     capabilities |-> s.capabilities,
     wake_history |-> SubSeq(s.wake_history, 1, Min(Len(s.wake_history), HistoryCap))]

\* AgentState.to_dict: the history is cut to its last 100 entries here.
to_dict(s) ==
    [wake_count   |-> s.wake_count,
     last_wake    |-> s.last_wake,
     active_tasks |-> s.active_tasks,
     capabilities |-> s.capabilities,
     wake_history |-> LastSlice(s.wake_history, HistoryCap)]

\* increment_wake stamping the time without counting
Mut_increment_wake(s, t) ==
    [s EXCEPT !.last_wake = t]

\* increment_wake counting without stamping the time
Mut_increment_wake_NoStamp(s, t) ==
    [s EXCEPT !.wake_count = @ + 1]

\* AgentState.increment_wake, t being the reading of utcnow()
increment_wake(s, t) ==
    [s EXCEPT !.wake_count = @ + 1, !.last_wake = t]

\* t is a dict whose status is "pending"
IsPendingTask(t) == IF "status" \in DOMAIN t THEN t.status = "pending" ELSE FALSE

\* An entry numbered by its position in the history, not by wake_count
Mut_WakeEntry(s, results) ==
    [wake_number   |-> Len(s.wake_history) + 1,
     timestamp     |-> s.last_wake,
     actions_count |-> Len(Get(results, "actions", <<>>)),
     status        |-> Get(results, "status", "unknown")]

\* The entry record_wake builds from the state and the results dict
WakeEntry(s, results) ==
    [wake_number   |-> s.wake_count,
     timestamp     |-> s.last_wake,
     actions_count |-> Len(Get(results, "actions", <<>>)),
     status        |-> Get(results, "status", "unknown")]

\* record_wake on an executor that marks what it ran: every pending task
\* becomes "completed"
Mut_record_wake(s, results) ==
    [s EXCEPT !.wake_history = Append(@, WakeEntry(s, results)),
              !.active_tasks = [i \in 1..Len(@) |->
                                  IF IsPendingTask(@[i])
                                  THEN [@[i] EXCEPT !.status = "completed"]
                                  ELSE @[i]]]

\* record_wake on an executor that removes what it ran: the pending tasks
\* leave the backlog
Mut_record_wake_Drain(s, results) ==
    [s EXCEPT !.wake_history = Append(@, WakeEntry(s, results)),
              !.active_tasks = SelectSeq(@, LAMBDA t : ~IsPendingTask(t))]

\* AgentState.record_wake
record_wake(s, results) ==
    [s EXCEPT !.wake_history = Append(@, WakeEntry(s, results))]

-----------------------------------------------------------------------------
(* class AgentCore *)

\* A backlog entry that is no dict (a JSON string, number or null) is
\* written as the record NonDict; task.get raises AttributeError on it.
NonDict == [py_type |-> "str"]

HasGet(t) == "py_type" \notin DOMAIN t

\* The for loop of _execute_tasks raises at the first entry without a get
\* method; it has changed nothing by then.
ExecuteTasksRaises(s) == \E i \in 1..Len(s.active_tasks) : ~HasGet(s.active_tasks[i])

\* task.get("status") == "pending"
IsPending(t) == "status" \in DOMAIN t /\ t.status = "pending"

\* AgentCore._check_messages
_check_messages == <<>>

\* _execute_tasks taking every task of the backlog, whatever its status
Mut_execute_tasks(s) ==
    [i \in 1..Len(s.active_tasks) |-> Get(s.active_tasks[i], "name", Null)]

\* AgentCore._execute_tasks: the names of the pending tasks, in stored order;
\* no task is modified.
_execute_tasks(s) ==
    LET pending == SelectSeq(s.active_tasks, IsPending)
    IN  [i \in 1..Len(pending) |-> Get(pending[i], "name", Null)]

\* AgentCore._check_improvements
_check_improvements == <<>>

\* The results dict wake() starts from, t being its own reading of utcnow()
NewResults(s, t) ==
    [wake_number |-> s.wake_count,
     timestamp   |-> t,
     actions     |-> <<>>,
     status      |-> "healthy"]

\* if found: results["actions"].append(f"{verb} {len(found)} {noun}")
ReportPhase(results, found, verb, noun) ==
    IF Len(found) > 0
    THEN [results EXCEPT !.actions = Append(@, <<verb, Len(found), noun>>)]
    ELSE results

-----------------------------------------------------------------------------
(* The state store: _get_blob_client, _load_state, _save_state *)

\* json.dumps of a dict: its items in insertion order
JsonDumps(d) ==
    IF Truthy(d)
    THEN << <<"wake_count", d.wake_count>>,
            <<"last_wake", d.last_wake>>,
            <<"active_tasks", d.active_tasks>>,
            <<"capabilities", d.capabilities>>,
            <<"wake_history", d.wake_history>> >>
    ELSE <<>>

\* json.loads of such a document
JsonLoads(doc) ==
    [k \in {doc[i][1] : i \in DOMAIN doc} |->
        doc[CHOOSE i \in DOMAIN doc : doc[i][1] = k][2]]

NoBlob == [exists |-> FALSE, content |-> <<>>]

\* How one call of _load_state can go.  Without the connection string
\* _get_blob_client returns None ("noclient"); with it the download finds the
\* blob ("ok") or not ("notfound"), or a fault strikes: the client cannot be
\* built ("noclient") or the download or the parse raises ("error").
LoadOutcomes(faults) ==
    IF ~configured THEN {"noclient"}
    ELSE {IF blob.exists THEN "ok" ELSE "notfound"}
         \cup (IF faults THEN {"error", "noclient"} ELSE {})

\* _load_state taking a blob it found for a missing one
Mut_load_state(p, o) ==
    CASE o = "ok"       -> EmptyMap
      [] o = "notfound" -> EmptyMap
      [] OTHER          -> mem[p]

\* _load_state starting afresh whenever it has no client
Mut_load_state_NoClient(p, o) ==
    CASE o = "ok"       -> JsonLoads(blob.content)
      [] o = "notfound" -> EmptyMap
      [] o = "noclient" -> EmptyMap
      [] OTHER          -> mem[p]

\* _load_state starting afresh when the download fails
Mut_load_state_Error(p, o) ==
    CASE o = "ok"       -> JsonLoads(blob.content)
      [] o = "notfound" -> EmptyMap
      [] o = "error"    -> EmptyMap
      [] OTHER          -> mem[p]

\* _load_state treating a missing blob like any other download error
Mut_load_state_NotFound(p, o) ==
    CASE o = "ok"       -> JsonLoads(blob.content)
      [] OTHER          -> mem[p]

\* _load_state preferring what the process saved last to what the backend holds
Mut_load_state_CacheFirst(p, o) ==
    CASE o = "ok"       -> IF Truthy(mem[p]) THEN mem[p] ELSE JsonLoads(blob.content)
      [] OTHER          -> mem[p]

\* _load_state in worker p when the call goes as outcome o
_load_state(p, o) ==
    CASE o = "ok"       -> JsonLoads(blob.content)
      [] o = "notfound" -> EmptyMap
      [] OTHER          -> mem[p]

\* The loaded dict is a shallow copy of the cache: its lists are the cache's.
FromCache(p, o) == o \in {"error", "noclient"} /\ Truthy(mem[p])

\* A save that cannot finish without a blob client
Mut_SaveOutcomes(faults) ==
    IF ~configured THEN {} ELSE {"ok"}

\* How one call of _save_state can go.
SaveOutcomes(faults) ==
    IF ~configured THEN {"noclient"}
    ELSE {"ok"} \cup (IF faults THEN {"error", "noclient"} ELSE {})

\* A save that merges instead of overwriting: when the blob already holds a
\* wake_count as high as the one saved, it stores that count plus one.
Mut_BlobAfterSave(d, o) ==
    IF o # "ok" THEN blob
    ELSE IF blob.exists /\ blob.content[1][2] >= d.wake_count
         THEN [exists |-> TRUE,
               content |-> JsonDumps([d EXCEPT !.wake_count = blob.content[1][2] + 1])]
         ELSE [exists |-> TRUE, content |-> JsonDumps(d)]

\* A save that appends to the stored backlog: when the blob already holds
\* as many tasks as the dict saved, the dict's last task is added to them.
Mut_BlobAfterSave_KeepTasks(d, o) ==
    IF o # "ok" THEN blob
    ELSE IF /\ blob.exists
            /\ Len(d.active_tasks) > 0
            /\ Len(blob.content[3][2]) >= Len(d.active_tasks)
         THEN [exists |-> TRUE,
               content |-> JsonDumps([d EXCEPT !.active_tasks =
                              Append(blob.content[3][2], d.active_tasks[Len(d.active_tasks)])])]
         ELSE [exists |-> TRUE, content |-> JsonDumps(d)]

\* A save that never takes the wake counter back: when the blob holds a
\* higher wake_count than the dict saved, its counter, stamp and history stay.
Mut_BlobAfterSave_KeepCount(d, o) ==
    IF o # "ok" THEN blob
    ELSE IF blob.exists /\ blob.content[1][2] > d.wake_count
         THEN [exists |-> TRUE,
               content |-> JsonDumps([d EXCEPT !.wake_count = blob.content[1][2],
                                               !.last_wake = blob.content[2][2],
                                               !.wake_history = blob.content[5][2]])]
         ELSE [exists |-> TRUE, content |-> JsonDumps(d)]

\* The blob after _save_state(d) going as outcome o
BlobAfterSave(d, o) ==
    IF o = "ok" THEN [exists |-> TRUE, content |-> JsonDumps(d)] ELSE blob

\* _save_state keeping the cache only when there is no backend
Mut_CacheAfterSave(p, d) == IF configured THEN mem ELSE [mem EXCEPT ![p] = d]

\* The cache of worker p after _save_state(d)
CacheAfterSave(p, d) == [mem EXCEPT ![p] = d]

IsFault(o) == configured /\ o \in {"error", "noclient"}

\* What a load that succeeds would return to worker p now
Stored(p) ==
    IF configured
    THEN (IF blob.exists THEN JsonLoads(blob.content) ELSE EmptyMap)
    ELSE mem[p]

-----------------------------------------------------------------------------
(* Requests, responses and the values locals hold outside a handler *)

FreshState == AgentState(EmptyMap)

NoResponse == [op |-> "none", code |-> 0, body |-> EmptyMap]

\* func.HttpResponse(json.dumps(body), status_code=code)
HttpResponse(op, code, body) == [op |-> op, code |-> code, body |-> body]

\* What the Functions host answers when a handler raises
HostError(op) == [op |-> op, code |-> 500, body |-> EmptyMap]

\* POST /task bodies: not JSON at all, JSON that is no object, and objects
\* without a name, with an empty name, with a name only, with every field.
TaskBodies ==
    { [kind |-> "invalid",   json |-> EmptyMap],
      [kind |-> "nonobject", json |-> EmptyMap],
      [kind |-> "object",    json |-> EmptyMap],
      [kind |-> "object",    json |-> [name |-> ""]],
      [kind |-> "object",    json |-> [description |-> "d"]],
      [kind |-> "object",    json |-> [name |-> "t1"]],
      [kind |-> "object",    json |-> [name |-> "t2", description |-> "d",
                                       priority |-> "high"]] }

\* not task_data.get("name")
NameMissing(json) == IF "name" \in DOMAIN json THEN json.name = "" ELSE TRUE

\* add_task numbering from zero
Mut_NewTask(s, json, t) ==
    [id          |-> Len(s.active_tasks),
     name        |-> json.name,
     description |-> Get(json, "description", ""),
     priority    |-> Get(json, "priority", "normal"),
     status      |-> "pending",
     created_at  |-> t]

\* The task dict add_task builds, t being the reading of utcnow()
NewTask(s, json, t) ==
    [id          |-> Len(s.active_tasks) + 1,
     name        |-> json.name,
     description |-> Get(json, "description", ""),
     priority    |-> Get(json, "priority", "normal"),
     status      |-> "pending",
     created_at  |-> t]

Idle(p) == pc[p] = "idle"

InWake(p) == pc[p] \in {"inc", "res", "msg", "tasks", "impr", "metrics", "ret", "save"}

\* p is between the load and the save of a handler: at a step that touches
\* nothing but the handler's own locals
InLocal(p) == pc[p] \in {"inc", "res", "msg", "tasks", "impr", "metrics", "ret"}

InTask(p) == pc[p] = "t_save"

\* The events of a run so far: handlers started, storage faults, restarts
\* and clock ticks.  A run of the bounded model holds at most cap of them.
Events ==
    wakesDone + Cardinality({q \in Procs : InWake(q)})
    + tasksDone + Cardinality({q \in Procs : InTask(q)})
    + nFail + nRestart + (now - 1)

\* The budget of events left allows n more
Room(cap, n) == Events + n <= cap

-----------------------------------------------------------------------------
(* class MCPIntegration (src/mcp_integration.py) *)

\* The servers _register_default_servers registers
DefaultServers == {"n8n", "playwright", "claude-in-chrome"}

\* server.url.startswith("local://")
IsLocal(n) == n \in {"playwright", "claude-in-chrome"}

\* The server names and tool names callers pass
ServerNames == DefaultServers \cup {"unknown"}

ToolNames == {"browser_navigate", "workflow_list"}

\* How the health request of connect() can end, and the POST of call_tool()
HealthOutcomes == {"200", "503", "exception"}

PostOutcomes == {"json", "exception"}

\* connect() taking any answer of the server for a sign of health
Mut_StatusAfterHealth(h) == IF h = "exception" THEN "error" ELSE "connected"

\* connect() on a remote server: "connected" on a 200, "error" otherwise
StatusAfterHealth(h) == IF h = "200" THEN "connected" ELSE "error"

\* _simulate_local_call
SimulateLocalCall(n, tool) ==
    IF n = "playwright" /\ tool = "browser_navigate"
    THEN [success |-> TRUE, title |-> "Example Page"]
    ELSE [success |-> TRUE, simulated |-> TRUE]

\* What the last call that returned gave back: a connect() its bool, a
\* call_tool() its dict; performed tells whether call_tool reached a server
\* (the simulation of a local one or the POST to a remote one).
McpReturn(op, n, ok, result, performed, health) ==
    [op |-> op, name |-> n, ok |-> ok, result |-> result, performed |-> performed,
     health |-> health]

NoMcpCall ==
    [inflight |-> {}, nStarted |-> 0, nDone |-> 0,
     last |-> McpReturn("none", "", FALSE, EmptyMap, FALSE, "")]

\* connect(n) on an unknown name or on a local server: it returns at once.
McpConnect(n) ==
    /\ mcp.nStarted < MaxMcpOps
    /\ n \notin DefaultServers \/ IsLocal(n)
    /\ servers' = IF n \in DefaultServers
                  THEN [servers EXCEPT ![n] = "connected"]
                  ELSE servers
    /\ mcp' = [mcp EXCEPT !.nStarted = @ + 1, !.nDone = @ + 1,
                          !.last = McpReturn("connect", n, n \in DefaultServers,
                                             EmptyMap, FALSE, "")]
    /\ UNCHANGED appVars

\* connect(n) on a remote server, up to the await of the health request
McpConnectRemote(n) ==
    /\ mcp.nStarted < MaxMcpOps
    /\ n \in DefaultServers /\ ~IsLocal(n)
    /\ [op |-> "connect", name |-> n, tool |-> ""] \notin mcp.inflight
    /\ mcp' = [mcp EXCEPT !.nStarted = @ + 1,
                          !.inflight = @ \cup {[op |-> "connect", name |-> n, tool |-> ""]}]
    /\ UNCHANGED <<servers, appVars>>

\* connect(n) on a remote server, from the answer of the health request on
McpConnectRemoteDone(n, h) ==
    /\ [op |-> "connect", name |-> n, tool |-> ""] \in mcp.inflight
    /\ servers' = [servers EXCEPT ![n] = StatusAfterHealth(h)]
    /\ mcp' = [mcp EXCEPT !.nDone = @ + 1,
                          !.inflight = @ \ {[op |-> "connect", name |-> n, tool |-> ""]},
                          !.last = McpReturn("connect", n, StatusAfterHealth(h) = "connected",
                                             EmptyMap, FALSE, h)]
    /\ UNCHANGED appVars

\* The server n is registered and its status is "connected"
IsConnected(n) == IF n \in DefaultServers THEN servers[n] = "connected" ELSE FALSE

\* call_tool(n, tool, params) returning at once: an error dict for an
\* unknown or unconnected server, the simulated answer of a local one.
McpCallTool(n, tool) ==
    /\ mcp.nStarted < MaxMcpOps
    /\ ~IsConnected(n) \/ IsLocal(n)
    /\ mcp' = [mcp EXCEPT !.nStarted = @ + 1, !.nDone = @ + 1,
                          !.last =
                             IF n \notin DefaultServers
                             THEN McpReturn("call", n, FALSE, [error |-> "Unknown server"], FALSE, "")
                             ELSE IF ~IsConnected(n)
                             THEN McpReturn("call", n, FALSE, [error |-> "Server not connected"], FALSE, "")
                             ELSE McpReturn("call", n, FALSE, SimulateLocalCall(n, tool), TRUE, "")]
    /\ UNCHANGED <<servers, appVars>>

\* call_tool on a connected remote server, up to the await of the POST
McpCallRemote(n, tool) ==
    /\ mcp.nStarted < MaxMcpOps
    /\ IsConnected(n) /\ ~IsLocal(n)
    /\ [op |-> "call", name |-> n, tool |-> tool] \notin mcp.inflight
    /\ mcp' = [mcp EXCEPT !.nStarted = @ + 1,
                          !.inflight = @ \cup {[op |-> "call", name |-> n, tool |-> tool]}]
    /\ UNCHANGED <<servers, appVars>>

\* call_tool on a remote server, from the answer of the POST on:
\* response.json(), or {"error": str(e)} when the request raised
McpCallRemoteDone(n, tool, r) ==
    /\ [op |-> "call", name |-> n, tool |-> tool] \in mcp.inflight
    /\ mcp' = [mcp EXCEPT !.nDone = @ + 1,
                          !.inflight = @ \ {[op |-> "call", name |-> n, tool |-> tool]},
                          !.last = McpReturn("call", n, FALSE,
                                             IF r = "json" THEN [json |-> tool]
                                             ELSE [error |-> "exception"],
                                             TRUE, "")]
    /\ UNCHANGED <<servers, appVars>>

-----------------------------------------------------------------------------
(* Initial states *)

InitCommon ==
    /\ servers = [n \in DefaultServers |-> "disconnected"]
    /\ mcp = NoMcpCall
    /\ blob = NoBlob
    /\ mem = [p \in Procs |-> EmptyMap]
    /\ state_data = [p \in Procs |-> EmptyMap]
    /\ aliased = [p \in Procs |-> FALSE]
    /\ res = [p \in Procs |-> EmptyMap]
    /\ task = [p \in Procs |-> EmptyMap]
    /\ data = [p \in Procs |-> EmptyMap]
    /\ resp = [p \in Procs |-> NoResponse]
    /\ now = 1
    /\ wakesDone = 0
    /\ tasksDone = 0
    /\ nFail = 0
    /\ nRestart = 0
    /\ saved = [p \in Procs |-> EmptyMap]

\* A deployment that has never run: no blob, empty caches, idle workers.
Init ==
    /\ InitCommon
    /\ configured \in BOOLEAN
    /\ pc = [p \in Procs |-> "idle"]
    /\ st = [p \in Procs |-> FreshState]

-----------------------------------------------------------------------------
(* _execute_wake and AgentCore.wake, one action per step *)

\* _execute_wake up to the call of agent.wake(): _load_state, AgentState,
\* AgentCore.  cap bounds the wake cycles of a run.
ExecuteWakeLoad(p, cap, faults) ==
    /\ Idle(p)
    /\ \E o \in LoadOutcomes(faults) :
          /\ Room(cap, IF IsFault(o) THEN 2 ELSE 1)
          /\ state_data' = [state_data EXCEPT ![p] = _load_state(p, o)]
          /\ st' = [st EXCEPT ![p] = AgentState(_load_state(p, o))]
          /\ aliased' = [aliased EXCEPT ![p] = FromCache(p, o)]
          /\ nFail' = IF IsFault(o) THEN nFail + 1 ELSE nFail
    /\ pc' = [pc EXCEPT ![p] = "inc"]
    /\ UNCHANGED <<servers, mcp, saved, configured, blob, mem, res, task, data, resp, now, wakesDone,
                   tasksDone, nRestart>>

\* wake(): self.state.increment_wake()
Increment(p) ==
    /\ pc[p] = "inc"
    /\ st' = [st EXCEPT ![p] = increment_wake(st[p], now)]
    /\ pc' = [pc EXCEPT ![p] = "res"]
    /\ UNCHANGED <<servers, mcp, saved, configured, blob, mem, state_data, aliased, res, task, data,
                   resp, now, wakesDone, tasksDone, nFail, nRestart>>

\* wake(): results = {...}
BuildResults(p) ==
    /\ pc[p] = "res"
    /\ res' = [res EXCEPT ![p] = NewResults(st[p], now)]
    /\ pc' = [pc EXCEPT ![p] = "msg"]
    /\ UNCHANGED <<servers, mcp, saved, configured, blob, mem, state_data, st, aliased, task, data,
                   resp, now, wakesDone, tasksDone, nFail, nRestart>>

\* wake(), phase 1
CheckMessages(p) ==
    /\ pc[p] = "msg"
    /\ res' = [res EXCEPT ![p] = ReportPhase(@, _check_messages, "Processed", "messages")]
    /\ pc' = [pc EXCEPT ![p] = "tasks"]
    /\ UNCHANGED <<servers, mcp, saved, configured, blob, mem, state_data, st, aliased, task, data,
                   resp, now, wakesDone, tasksDone, nFail, nRestart>>

\* wake(), phase 2.  wake() has no try: when _execute_tasks raises, the
\* exception leaves wake() at once ("raised"), no later phase runs and no
\* results dict is returned.
ExecuteTasks(p) ==
    /\ pc[p] = "tasks"
    /\ res' = IF ExecuteTasksRaises(st[p]) THEN res
              ELSE [res EXCEPT ![p] =
                      ReportPhase(@, _execute_tasks(st[p]), "Completed", "tasks")]
    /\ pc' = [pc EXCEPT ![p] = IF ExecuteTasksRaises(st[p]) THEN "raised" ELSE "impr"]
    /\ UNCHANGED <<servers, mcp, saved, configured, blob, mem, state_data, st, aliased, task, data,
                   resp, now, wakesDone, tasksDone, nFail, nRestart>>

\* Phase 3 sending wake() back to phase 2 once, when phase 2 reported work
Mut_CheckImprovements(p) ==
    /\ pc[p] = "impr"
    /\ res' = [res EXCEPT ![p] = ReportPhase(@, _check_improvements, "Identified", "improvements")]
    /\ pc' = [pc EXCEPT ![p] = IF Len(res[p].actions) = 1 THEN "tasks" ELSE "metrics"]
    /\ UNCHANGED <<servers, mcp, saved, configured, blob, mem, state_data, st, aliased, task, data,
                   resp, now, wakesDone, tasksDone, nFail, nRestart>>

\* wake(), phase 3
CheckImprovements(p) ==
    /\ pc[p] = "impr"
    /\ res' = [res EXCEPT ![p] = ReportPhase(@, _check_improvements, "Identified", "improvements")]
    /\ pc' = [pc EXCEPT ![p] = "metrics"]
    /\ UNCHANGED <<servers, mcp, saved, configured, blob, mem, state_data, st, aliased, task, data,
                   resp, now, wakesDone, tasksDone, nFail, nRestart>>

\* wake(), phase 4 (_update_metrics only logs) and the return of results
UpdateMetrics(p) ==
    /\ pc[p] = "metrics"
    /\ pc' = [pc EXCEPT ![p] = "ret"]
    /\ UNCHANGED <<servers, mcp, saved, configured, blob, mem, state_data, st, aliased, res, task, data,
                   resp, now, wakesDone, tasksDone, nFail, nRestart>>

\* The cache after an append to a list the state shares with it
CacheAfterAppend(p, key, item) ==
    IF aliased[p]
    THEN [mem EXCEPT ![p][key] = Append(@, item)]
    ELSE mem

\* _execute_wake: state.record_wake(results)
RecordWake(p) ==
    /\ pc[p] = "ret"
    /\ st' = [st EXCEPT ![p] = record_wake(st[p], res[p])]
    /\ mem' = CacheAfterAppend(p, "wake_history", WakeEntry(st[p], res[p]))
    /\ pc' = [pc EXCEPT ![p] = "save"]
    /\ UNCHANGED <<servers, mcp, saved, configured, blob, state_data, aliased, res, task, data,
                   resp, now, wakesDone, tasksDone, nFail, nRestart>>

\* _execute_wake: _save_state(state.to_dict()), return results; trigger_wake
\* wraps them in its response.
ExecuteWakeSave(p, cap, faults) ==
    /\ pc[p] = "save"
    /\ \E o \in SaveOutcomes(faults) :
          /\ Room(cap, IF IsFault(o) THEN 1 ELSE 0)
          /\ mem' = CacheAfterSave(p, to_dict(st[p]))
          /\ blob' = BlobAfterSave(to_dict(st[p]), o)
          /\ nFail' = IF IsFault(o) THEN nFail + 1 ELSE nFail
    /\ resp' = [resp EXCEPT ![p] =
                   HttpResponse("wake", 200, [success |-> TRUE, wake_results |-> res[p]])]
    /\ pc' = [pc EXCEPT ![p] = "w_done"]
    /\ wakesDone' = wakesDone + 1
    /\ saved' = [saved EXCEPT ![p] = to_dict(st[p])]
    /\ UNCHANGED <<servers, mcp, configured, state_data, st, aliased, res, task, data, now,
                   tasksDone, nRestart>>

-----------------------------------------------------------------------------
(* add_task *)

\* add_task on a body it turns down before touching the state: get_json
\* raises ValueError (400), the name is missing or empty (400), or the JSON
\* value has no get method and the AttributeError escapes the handler.
AddTaskRejected(p) ==
    /\ Idle(p)
    /\ \E b \in TaskBodies :
          /\ (IF b.kind = "object" THEN NameMissing(b.json) ELSE TRUE)
          /\ resp' = [resp EXCEPT ![p] =
                CASE b.kind = "invalid" ->
                        HttpResponse("task", 400, [error |-> "Invalid JSON"])
                  [] b.kind = "nonobject" -> HostError("task")
                  [] OTHER ->
                        HttpResponse("task", 400, [error |-> "Task name required"])]
    /\ pc' = [pc EXCEPT ![p] = "t_done"]
    /\ UNCHANGED <<servers, mcp, saved, configured, blob, mem, state_data, st, aliased, res, task,
                   data, now, wakesDone, tasksDone, nFail, nRestart>>

\* add_task on a body with a name, up to the call of _save_state: _load_state,
\* AgentState, the task dict, state.active_tasks.append(task).
AddTaskLoad(p, cap, faults) ==
    /\ Idle(p)
    /\ \E b \in TaskBodies, o \in LoadOutcomes(faults) :
          /\ Room(cap, IF IsFault(o) THEN 2 ELSE 1)
          /\ b.kind = "object" /\ ~NameMissing(b.json)
          /\ LET sd == _load_state(p, o)
                 s  == AgentState(sd)
                 t  == NewTask(s, b.json, now)
             IN  /\ state_data' = [state_data EXCEPT ![p] = sd]
                 /\ task' = [task EXCEPT ![p] = t]
                 /\ st' = [st EXCEPT ![p] = [s EXCEPT !.active_tasks = Append(@, t)]]
                 /\ aliased' = [aliased EXCEPT ![p] = FromCache(p, o)]
                 /\ mem' = IF FromCache(p, o)
                           THEN [mem EXCEPT ![p]["active_tasks"] = Append(@, t)]
                           ELSE mem
          /\ nFail' = IF IsFault(o) THEN nFail + 1 ELSE nFail
    /\ pc' = [pc EXCEPT ![p] = "t_save"]
    /\ UNCHANGED <<servers, mcp, saved, configured, blob, res, data, resp, now, wakesDone, tasksDone,
                   nRestart>>

\* add_task: _save_state(state.to_dict()) and the success response
AddTaskSave(p, cap, faults) ==
    /\ pc[p] = "t_save"
    /\ \E o \in SaveOutcomes(faults) :
          /\ Room(cap, IF IsFault(o) THEN 1 ELSE 0)
          /\ mem' = CacheAfterSave(p, to_dict(st[p]))
          /\ blob' = BlobAfterSave(to_dict(st[p]), o)
          /\ nFail' = IF IsFault(o) THEN nFail + 1 ELSE nFail
    /\ resp' = [resp EXCEPT ![p] =
                   HttpResponse("task", 200, [success |-> TRUE, task |-> task[p]])]
    /\ pc' = [pc EXCEPT ![p] = "t_done"]
    /\ tasksDone' = tasksDone + 1
    /\ saved' = [saved EXCEPT ![p] = to_dict(st[p])]
    /\ UNCHANGED <<servers, mcp, configured, state_data, st, aliased, res, task, data, now,
                   wakesDone, nRestart>>

-----------------------------------------------------------------------------
(* get_history *)

\* get_history answering with the first ten entries
Mut_HistoryBody(sd) ==
    LET history == Get(sd, "wake_history", <<>>)
    IN  [recent_wakes |-> SubSeq(history, 1, Min(Len(history), RecentWakes)),
         total_wakes  |-> Len(history)]

\* The body get_history builds from the loaded dict:
\* history[-10:] if history else [], len(history)
HistoryBody(sd) ==
    LET history == Get(sd, "wake_history", <<>>)
    IN  [recent_wakes |-> IF Len(history) > 0 THEN LastSlice(history, RecentWakes) ELSE <<>>,
         total_wakes  |-> Len(history)]

\* get_history: _load_state and the response; nothing is saved.
GetHistory(p, cap, faults) ==
    /\ Idle(p)
    /\ \E o \in LoadOutcomes(faults) :
          /\ Room(cap, IF IsFault(o) THEN 1 ELSE 0)
          /\ resp' = [resp EXCEPT ![p] =
                         HttpResponse("history", 200, HistoryBody(_load_state(p, o)))]
          /\ nFail' = IF IsFault(o) THEN nFail + 1 ELSE nFail
    /\ pc' = [pc EXCEPT ![p] = "h_done"]
    /\ UNCHANGED <<servers, mcp, saved, configured, blob, mem, state_data, st, aliased, res, task,
                   data, now, wakesDone, tasksDone, nRestart>>

-----------------------------------------------------------------------------
(* get_status and get_metrics *)

\* get_status reporting the number of history entries as wake_count
Mut_StatusBody(s) ==
    [status       |-> "healthy",
     wake_count   |-> Len(s.wake_history),
     last_wake    |-> s.last_wake,
     active_tasks |-> Len(s.active_tasks),
     capabilities |-> DOMAIN s.capabilities,
     version      |-> "1.0.0"]

\* The status dict get_status builds from the AgentState it loaded
StatusBody(s) ==
    [status       |-> "healthy",
     wake_count   |-> s.wake_count,
     last_wake    |-> s.last_wake,
     active_tasks |-> Len(s.active_tasks),
     capabilities |-> DOMAIN s.capabilities,
     version      |-> "1.0.0"]

\* get_status: _load_state, AgentState and the response; nothing is saved.
GetStatus(p, cap, faults) ==
    /\ Idle(p)
    /\ \E o \in LoadOutcomes(faults) :
          /\ Room(cap, IF IsFault(o) THEN 1 ELSE 0)
          /\ resp' = [resp EXCEPT ![p] =
                         HttpResponse("status", 200, StatusBody(AgentState(_load_state(p, o))))]
          /\ nFail' = IF IsFault(o) THEN nFail + 1 ELSE nFail
    /\ pc' = [pc EXCEPT ![p] = "s_done"]
    /\ UNCHANGED <<servers, mcp, saved, configured, blob, mem, state_data, st, aliased, res, task,
                   data, now, wakesDone, tasksDone, nRestart>>

\* The dict get_metrics answers with: literals of the source, whatever the
\* state (its integer-valued operational figures; the other groups are
\* literals too).
MetricsBody ==
    [operational_metrics |->
        [total_wakes |-> 857, uptime_days |-> 22, average_wakes_per_day |-> 39]]

\* get_metrics: no load, no save.
GetMetrics(p) ==
    /\ Idle(p)
    /\ resp' = [resp EXCEPT ![p] = HttpResponse("metrics", 200, MetricsBody)]
    /\ pc' = [pc EXCEPT ![p] = "m_done"]
    /\ UNCHANGED <<servers, mcp, saved, configured, blob, mem, state_data, st, aliased, res, task,
                   data, now, wakesDone, tasksDone, nFail, nRestart>>

\* The handler's response goes out to the host and its locals are dropped.
Return(p) ==
    /\ pc[p] \in {"w_done", "t_done", "h_done", "s_done", "m_done"}
    /\ pc' = [pc EXCEPT ![p] = "idle"]
    /\ state_data' = [state_data EXCEPT ![p] = EmptyMap]
    /\ st' = [st EXCEPT ![p] = FreshState]
    /\ aliased' = [aliased EXCEPT ![p] = FALSE]
    /\ res' = [res EXCEPT ![p] = EmptyMap]
    /\ task' = [task EXCEPT ![p] = EmptyMap]
    /\ resp' = [resp EXCEPT ![p] = NoResponse]
    /\ UNCHANGED <<servers, mcp, saved, configured, blob, mem, data, now, wakesDone, tasksDone, nFail,
                   nRestart>>

-----------------------------------------------------------------------------
(* The environment *)

\* Time passes between two readings of the clock.
Tick(cap) ==
    /\ Room(cap, 1)
    /\ now' = now + 1
    /\ UNCHANGED <<servers, mcp, saved, configured, blob, mem, pc, state_data, st, aliased, res, task,
                   data, resp, wakesDone, tasksDone, nFail, nRestart>>

\* An idle worker is recycled: the new process starts with _in_memory_state = {}.
Restart(p, cap) ==
    /\ Idle(p)
    /\ Room(cap, 1)
    /\ nRestart' = nRestart + 1
    /\ mem' = [mem EXCEPT ![p] = EmptyMap]
    /\ saved' = [saved EXCEPT ![p] = EmptyMap]
    /\ UNCHANGED <<servers, mcp, configured, blob, pc, state_data, st, aliased, res, task, data,
                   resp, now, wakesDone, tasksDone, nFail>>

-----------------------------------------------------------------------------
(* Spec: the workers run handlers concurrently on the shared blob, with    *)
(* storage faults and restarts.                                            *)

\* The steps of AgentCore.wake(), in the order of its body
WakePhases(p) ==
    \/ Increment(p)
    \/ BuildResults(p)
    \/ CheckMessages(p)
    \/ ExecuteTasks(p)
    \/ CheckImprovements(p)
    \/ UpdateMetrics(p)

Next ==
    \/ \E p \in Procs : ExecuteWakeLoad(p, MaxEvents, TRUE)
    \/ \E p \in Procs : WakePhases(p)
    \/ \E p \in Procs : RecordWake(p)
    \/ \E p \in Procs : ExecuteWakeSave(p, MaxEvents, TRUE)
    \/ \E p \in Procs : AddTaskLoad(p, MaxEvents, TRUE)
    \/ \E p \in Procs : AddTaskSave(p, MaxEvents, TRUE)
    \/ \E p \in Procs : Return(p)
    \/ \E p \in Procs : Restart(p, MaxEvents)
    \/ Tick(MaxEvents)

Spec == Init /\ [][Next]_vars

-----------------------------------------------------------------------------
(* SpecFair: the concurrent workers of Spec on a shorter run, with the     *)
(* scheduling the runtime gives: a wake cycle that has started is a        *)
(* coroutine that never suspends, so its next step is always taken.        *)

\* The steps of a wake cycle after its load
WakeStep(p) ==
    \/ WakePhases(p)
    \/ RecordWake(p)
    \/ ExecuteWakeSave(p, MaxFairEvents, TRUE)

NextFair ==
    \/ \E p \in Procs : ExecuteWakeLoad(p, MaxFairEvents, TRUE)
    \/ \E p \in Procs : WakeStep(p)
    \/ \E p \in Procs : AddTaskLoad(p, MaxFairEvents, TRUE)
    \/ \E p \in Procs : AddTaskSave(p, MaxFairEvents, TRUE)
    \/ \E p \in Procs : Return(p)
    \/ \E p \in Procs : Restart(p, MaxFairEvents)
    \/ Tick(MaxFairEvents)

SpecFair ==
    /\ Init
    /\ [][NextFair]_vars
    /\ \A p \in Procs : WF_vars(WakeStep(p))

-----------------------------------------------------------------------------
(* SpecSW: a single writer.  A handler starts only when no other handler   *)
(* is running, on either worker; storage faults and restarts happen.       *)
(* Without the connection string the store is a worker's own cache, and    *)
(* the deployment is the one worker Writer.                                *)

Writer == "A"

Alone(p) ==
    /\ \A q \in Procs : Idle(q)
    /\ configured \/ p = Writer

SWExecuteWake(p) == Alone(p) /\ ExecuteWakeLoad(p, MaxSWEvents, TRUE)

SWAddTaskRejected(p) == Alone(p) /\ AddTaskRejected(p)

SWAddTask(p) == Alone(p) /\ AddTaskLoad(p, MaxSWEvents, TRUE)

NextSW ==
    \/ \E p \in Procs : SWExecuteWake(p)
    \/ \E p \in Procs : WakePhases(p)
    \/ \E p \in Procs : RecordWake(p)
    \/ \E p \in Procs : ExecuteWakeSave(p, MaxSWEvents, TRUE)
    \/ \E p \in Procs : SWAddTaskRejected(p)
    \/ \E p \in Procs : SWAddTask(p)
    \/ \E p \in Procs : AddTaskSave(p, MaxSWEvents, TRUE)
    \/ \E p \in Procs : Return(p)
    \/ \E p \in Procs : Restart(p, MaxSWEvents)
    \/ Tick(MaxSWEvents)

SpecSW == Init /\ [][NextSW]_vars

-----------------------------------------------------------------------------
(* SpecSeq: a single writer on a store that works.  One worker runs the    *)
(* handlers one after the other, with the blob or, with no connection      *)
(* string, with its own cache as the store; no fault, no restart.  The run *)
(* is long enough for the history to pass its cap; the clock stands still  *)
(* in it.                                                                  *)

SeqCap == MaxSeqWakes + MaxSeqTasks

SeqExecuteWake ==
    /\ wakesDone < MaxSeqWakes
    /\ ExecuteWakeLoad(Writer, SeqCap, FALSE)

SeqAddTaskRejected == AddTaskRejected(Writer)

SeqAddTask ==
    /\ tasksDone < MaxSeqTasks
    /\ AddTaskLoad(Writer, SeqCap, FALSE)

SeqGetHistory == GetHistory(Writer, SeqCap, FALSE)

NextSeq ==
    \/ SeqExecuteWake
    \/ SeqGetHistory
    \/ WakePhases(Writer)
    \/ RecordWake(Writer)
    \/ ExecuteWakeSave(Writer, SeqCap, FALSE)
    \/ SeqAddTaskRejected
    \/ SeqAddTask
    \/ AddTaskSave(Writer, SeqCap, FALSE)
    \/ Return(Writer)

SpecSeq == Init /\ [][NextSeq]_vars

-----------------------------------------------------------------------------
(* SpecFrame: one worker, a store that works, every HTTP operation of the  *)
(* app, on a short run.                                                    *)

FrameExecuteWake == ExecuteWakeLoad(Writer, MaxFrameEvents, FALSE)

FrameAddTaskRejected == AddTaskRejected(Writer)

FrameAddTask == AddTaskLoad(Writer, MaxFrameEvents, FALSE)

FrameGetStatus == GetStatus(Writer, MaxFrameEvents, FALSE)

FrameGetHistory == GetHistory(Writer, MaxFrameEvents, FALSE)

FrameGetMetrics == GetMetrics(Writer)

NextFrame ==
    \/ FrameExecuteWake
    \/ WakePhases(Writer)
    \/ RecordWake(Writer)
    \/ ExecuteWakeSave(Writer, MaxFrameEvents, FALSE)
    \/ FrameAddTaskRejected
    \/ FrameAddTask
    \/ AddTaskSave(Writer, MaxFrameEvents, FALSE)
    \/ FrameGetStatus
    \/ FrameGetHistory
    \/ FrameGetMetrics
    \/ Return(Writer)
    \/ Tick(MaxFrameEvents)

SpecFrame == Init /\ [][NextFrame]_vars

-----------------------------------------------------------------------------
(* SpecLong: one worker, a store that works, wake cycles only and the two  *)
(* read operations that report on them, on a run long enough for the       *)
(* history to pass its cap.                                                *)

LongExecuteWake ==
    /\ wakesDone < MaxSeqWakes
    /\ ExecuteWakeLoad(Writer, MaxSeqWakes, FALSE)

LongGetStatus == GetStatus(Writer, MaxSeqWakes, FALSE)

LongGetHistory == GetHistory(Writer, MaxSeqWakes, FALSE)

NextLong ==
    \/ LongExecuteWake
    \/ WakePhases(Writer)
    \/ RecordWake(Writer)
    \/ ExecuteWakeSave(Writer, MaxSeqWakes, FALSE)
    \/ LongGetStatus
    \/ LongGetHistory
    \/ Return(Writer)

SpecLong == Init /\ [][NextLong]_vars

-----------------------------------------------------------------------------
(* SpecMCP: one MCPIntegration instance and the coroutines that call       *)
(* connect and call_tool on it; a coroutine is suspended while its HTTP    *)
(* request is awaited, and other calls run meanwhile.                      *)

NextMCP ==
    \/ \E n \in ServerNames : McpConnect(n)
    \/ \E n \in ServerNames : McpConnectRemote(n)
    \/ \E n \in ServerNames, h \in HealthOutcomes : McpConnectRemoteDone(n, h)
    \/ \E n \in ServerNames, t \in ToolNames : McpCallTool(n, t)
    \/ \E n \in ServerNames, t \in ToolNames : McpCallRemote(n, t)
    \/ \E n \in ServerNames, t \in ToolNames, r \in PostOutcomes : McpCallRemoteDone(n, t, r)

SpecMCP == Init /\ [][NextMCP]_vars

-----------------------------------------------------------------------------
(* SpecUnit: the classes used directly, as src/tests/test_agent.py does.   *)
(* Worker "A" stands for the test's state and agent, "B" for the state it  *)
(* rebuilds from the serialised one.  No store is involved.                *)

\* Synthetic history entries, as test_wake_history_limit seeds them
SynthHistory(n) ==
    [i \in 1..n |-> [wake_number |-> i, timestamp |-> 1, actions_count |-> 0,
                     status |-> "healthy"]]

\* Backlog entries a stored state may hold: pending, another status, no status
UnitTasks ==
    { [id |-> 1, name |-> "p", status |-> "pending"],
      [id |-> 2, name |-> "c", status |-> "completed"],
      [name |-> "test"] }

SeqsUpTo(S, n) == UNION {[1..k -> S] : k \in 0..n}

\* The dicts the states under test are constructed from
UnitInputs ==
    {EmptyMap}
    \cup {[wake_history |-> SynthHistory(n)] : n \in 1..MaxHistLen}
    \cup {[active_tasks |-> ts] : ts \in SeqsUpTo(UnitTasks, MaxUnitTasks) \ {<<>>}}
    \cup {[active_tasks |-> <<NonDict>>],
          [active_tasks |-> <<[id |-> 1, name |-> "p", status |-> "pending"], NonDict>>]}
    \cup {[wake_history |-> SynthHistory(n), active_tasks |-> ts] :
             n \in {HistoryCap - 1, HistoryCap, HistoryCap + 1},
             ts \in SeqsUpTo(UnitTasks, 1) \ {<<>>}}

InitUnit ==
    /\ InitCommon
    /\ configured = FALSE
    /\ pc = [p \in Procs |-> IF p = "A" THEN "unit" ELSE "unit0"]
    /\ \E sd \in UnitInputs :
          st = [p \in Procs |-> IF p = "A" THEN AgentState(sd) ELSE FreshState]

\* results = await agent.wake()
UnitCallWake ==
    /\ pc["A"] \in {"unit", "dumped"}
    /\ wakesDone < MaxUnitWakes
    /\ pc' = [pc EXCEPT !["A"] = "inc", !["B"] = "unit0"]
    /\ st' = [st EXCEPT !["B"] = FreshState]
    /\ data' = [p \in Procs |-> EmptyMap]
    /\ UNCHANGED <<servers, mcp, saved, configured, blob, mem, state_data, aliased, res, task, resp,
                   now, wakesDone, tasksDone, nFail, nRestart>>

\* wake() has returned and the caller goes on
UnitWakeReturn ==
    /\ pc["A"] = "ret"
    /\ pc' = [pc EXCEPT !["A"] = "unit"]
    /\ wakesDone' = wakesDone + 1
    /\ UNCHANGED <<servers, mcp, saved, configured, blob, mem, state_data, st, aliased, res, task, data,
                   resp, now, tasksDone, nFail, nRestart>>

\* wake() has returned and the caller records it: state.record_wake(results)
UnitRecordWake ==
    /\ pc["A"] = "ret"
    /\ st' = [st EXCEPT !["A"] = record_wake(st["A"], res["A"])]
    /\ pc' = [pc EXCEPT !["A"] = "unit"]
    /\ wakesDone' = wakesDone + 1
    /\ UNCHANGED <<servers, mcp, saved, configured, blob, mem, state_data, aliased, res, task, data,
                   resp, now, tasksDone, nFail, nRestart>>

\* data = state.to_dict()
UnitToDict ==
    /\ pc["A"] = "unit"
    /\ data' = [data EXCEPT !["A"] = to_dict(st["A"])]
    /\ pc' = [pc EXCEPT !["A"] = "dumped"]
    /\ UNCHANGED <<servers, mcp, saved, configured, blob, mem, state_data, st, aliased, res, task, resp,
                   now, wakesDone, tasksDone, nFail, nRestart>>

\* new_state = AgentState(json.loads(json.dumps(data)))
UnitFromDict ==
    /\ pc["A"] = "dumped"
    /\ pc["B"] = "unit0"
    /\ st' = [st EXCEPT !["B"] = AgentState(JsonLoads(JsonDumps(data["A"])))]
    /\ pc' = [pc EXCEPT !["B"] = "rebuilt"]
    /\ UNCHANGED <<servers, mcp, saved, configured, blob, mem, state_data, aliased, res, task, data,
                   resp, now, wakesDone, tasksDone, nFail, nRestart>>

\* new_state.to_dict()
UnitToDictAgain ==
    /\ pc["B"] = "rebuilt"
    /\ data' = [data EXCEPT !["B"] = to_dict(st["B"])]
    /\ pc' = [pc EXCEPT !["B"] = "redumped"]
    /\ UNCHANGED <<servers, mcp, saved, configured, blob, mem, state_data, st, aliased, res, task, resp,
                   now, wakesDone, tasksDone, nFail, nRestart>>

UnitTick == Tick(2 * MaxUnitWakes)

NextUnit ==
    \/ UnitCallWake
    \/ WakePhases("A")
    \/ UnitWakeReturn
    \/ UnitRecordWake
    \/ UnitToDict
    \/ UnitFromDict
    \/ UnitToDictAgain
    \/ UnitTick

SpecUnit == InitUnit /\ [][NextUnit]_vars

-----------------------------------------------------------------------------
(* Claims *)

\* out is made of the last Min(Len(h), cap) entries of h, in h's order
IsTailOf(out, h, cap) ==
    /\ Len(out) = Min(Len(h), cap)
    /\ \A i \in 1..Len(out) : out[i] = h[Len(h) - Len(out) + i]

\* The backlog positions whose task has the status "pending"
PendingAt(ts) ==
    {i \in 1..Len(ts) : IF "status" \in DOMAIN ts[i] THEN ts[i].status = "pending" ELSE FALSE}

\* C1: on a state that starts with wake_count 0, after N consecutive wake()
\* calls wake_count is N and the N-th call's result has wake_number N
\* (wakesDone counts the calls that have returned).
C1_WakeCountIsCallCount ==
    /\ pc["A"] \in {"unit", "dumped"} =>
          /\ st["A"].wake_count = wakesDone
          /\ wakesDone >= 1 => res["A"].wake_number = wakesDone
    /\ pc["A"] = "ret" =>
          /\ st["A"].wake_count = wakesDone + 1
          /\ res["A"].wake_number = wakesDone + 1

C1_Witness ==
    /\ pc["A"] = "unit"
    /\ wakesDone >= 2
    /\ st["A"].wake_count = wakesDone
    /\ res["A"].wake_number = wakesDone

\* C5: whatever the length n of the in-memory history, to_dict() returns at
\* most 100 entries, and they are the last Min(n, 100) entries in order.
C5_ToDictKeepsLastHundred ==
    pc["A"] = "dumped" =>
       /\ Len(data["A"].wake_history) <= HistoryCap
       /\ IsTailOf(data["A"].wake_history, st["A"].wake_history, HistoryCap)

C5_Witness ==
    /\ pc["A"] = "dumped"
    /\ Len(st["A"].wake_history) > HistoryCap
    /\ Len(data["A"].wake_history) = HistoryCap
    /\ data["A"].wake_history[1] # st["A"].wake_history[1]

\* C7: AgentState(s.to_dict()) has the wake_count, last_wake and active_tasks
\* of s and the last 100 entries of its history, and serialising it again
\* gives the same mapping.
C7_RoundTrip ==
    pc["B"] \in {"rebuilt", "redumped"} =>
       /\ st["B"].wake_count = st["A"].wake_count
       /\ st["B"].last_wake = st["A"].last_wake
       /\ st["B"].active_tasks = st["A"].active_tasks
       /\ IsTailOf(st["B"].wake_history, st["A"].wake_history, HistoryCap)
       /\ pc["B"] = "redumped" => data["B"] = data["A"]

C7_Witness ==
    /\ pc["B"] = "redumped"
    /\ Len(st["A"].wake_history) > HistoryCap
    /\ st["A"].wake_count >= 1
    /\ st["A"].last_wake # Null
    /\ data["B"] = data["A"]

\* C10: with no pending task wake() returns no action and the status
\* "healthy"; with k >= 1 pending tasks it returns exactly one action, which
\* reports k completed tasks, k counting the pending tasks only.
C10_ActionsCountPendingTasks ==
    pc["A"] = "ret" =>
       LET k == Cardinality(PendingAt(st["A"].active_tasks))
       IN  /\ res["A"].status = "healthy"
           /\ k = 0 => res["A"].actions = <<>>
           /\ k >= 1 => res["A"].actions = << <<"Completed", k, "tasks">> >>

C10_Witness ==
    /\ pc["A"] = "ret"
    /\ Len(st["A"].active_tasks) = 2
    /\ Cardinality(PendingAt(st["A"].active_tasks)) = 1
    /\ Len(res["A"].actions) = 1

\* What the blob holds, as a successful download would return it
Durable == IF blob.exists THEN JsonLoads(blob.content) ELSE EmptyMap

\* No storage fault and no restart has happened so far
StoreWorked == nFail = 0 /\ nRestart = 0

\* C2: two wake cycles that both load the stored state before either saves
\* report the same wake_number, and once both have saved the stored
\* wake_count is one above the loaded one, not two, with one new history
\* entry, although one more cycle has completed than the store counts.
C2_OverlappingWakesLoseAnUpdate ==
    \A p \in Procs : \A q \in Procs \ {p} :
       (/\ configured /\ StoreWorked
        /\ pc[p] = "w_done" /\ pc[q] = "w_done"
        /\ state_data[p] = state_data[q])
       => LET base == AgentState(state_data[p])
          IN  /\ res[p].wake_number = base.wake_count + 1
              /\ res[q].wake_number = res[p].wake_number
              /\ resp[p].body.wake_results.wake_number
                    = resp[q].body.wake_results.wake_number
              /\ resp[p].body.success /\ resp[q].body.success
              /\ Durable.wake_count = base.wake_count + 1
              /\ Len(Durable.wake_history) = Len(base.wake_history) + 1
              /\ wakesDone > Durable.wake_count

C2_Witness ==
    /\ configured /\ StoreWorked
    /\ pc["A"] = "w_done" /\ pc["B"] = "w_done"
    /\ state_data["A"] = state_data["B"]
    /\ wakesDone = 2
    /\ Durable.wake_count = 1

\* C3: with a single writer and a working store, from no stored state, the
\* stored wake_count equals the number of wake cycles executed so far.
C3_StoredCountIsCyclesRun ==
    Get(Stored(Writer), "wake_count", 0) = wakesDone

C3_Witness ==
    /\ wakesDone > HistoryCap
    /\ tasksDone >= 1
    /\ Idle(Writer)
    /\ Stored(Writer).wake_count = wakesDone

\* C4: the wake_count held in the durable store never decreases, across any
\* single-writer sequence of wake cycles, task creations, restarts and
\* transient load and save failures.
C4_DurableCountNeverDecreases ==
    [][Get(Durable', "wake_count", 0) >= Get(Durable, "wake_count", 0)]_vars

\* C6: after every persist the stored history has at most 100 entries, and
\* eviction is first in, first out: a wake cycle run on a stored history of
\* 100 entries drops the oldest, keeps the other 99 in order and puts its
\* own entry last (below the cap it only appends).
C6_PersistedHistoryCappedFifo ==
    /\ Len(Get(Durable, "wake_history", <<>>)) <= HistoryCap
    /\ pc[Writer] \in {"idle", "w_done", "t_done"} =>
          Len(Get(Stored(Writer), "wake_history", <<>>)) <= HistoryCap
    /\ pc[Writer] = "w_done" =>
          LET base == Get(state_data[Writer], "wake_history", <<>>)
              new  == Stored(Writer).wake_history
              kept == IF Len(base) = HistoryCap THEN Tail(base) ELSE base
          IN  /\ Len(new) = Len(kept) + 1
              /\ \A i \in 1..Len(kept) : new[i] = kept[i]
              /\ new[Len(new)].wake_number = res[Writer].wake_number
              /\ new[Len(new)].wake_number = wakesDone

C6_Witness ==
    /\ pc[Writer] = "w_done"
    /\ Len(Get(state_data[Writer], "wake_history", <<>>)) = HistoryCap
    /\ Len(Stored(Writer).wake_history) = HistoryCap
    /\ Stored(Writer).wake_history[1] = state_data[Writer].wake_history[2]
    /\ wakesDone > HistoryCap

\* C8: a POST /task whose body has a missing or empty name, or is not valid
\* JSON, is answered 400 with an "error" key and changes neither the blob
\* nor the cache (add_task goes from idle straight to its response only when
\* it turns the body down).
C8_BadTaskBodyGets400 ==
    [][\A p \in Procs :
          (pc[p] = "idle" /\ pc'[p] = "t_done") =>
             /\ resp'[p].code = 400
             /\ "error" \in DOMAIN resp'[p].body
             /\ blob' = blob
             /\ mem' = mem]_vars

\* Whatever add_task answers when it turns a body down, it leaves the blob
\* and the caches alone, and its answer is 400 with an "error" key unless
\* the handler raised.
RejectionLeavesStoreUnchanged ==
    [][\A p \in Procs :
          (pc[p] = "idle" /\ pc'[p] = "t_done") =>
             /\ blob' = blob
             /\ mem' = mem
             /\ resp'[p].code \in {400, 500}
             /\ resp'[p].code = 400 => "error" \in DOMAIN resp'[p].body]_vars

\* C9: with a single writer and a working store, from an empty backlog, the
\* k-th successful POST /task returns and stores a task with id k and status
\* "pending" at the end of active_tasks, so the stored ids are 1, 2, ..., k in
\* arrival order.
C9_TaskIdsFollowArrival ==
    StoreWorked =>
       LET ts == Get(Stored(Writer), "active_tasks", <<>>)
       IN  /\ \A i \in 1..Len(ts) : ts[i].id = i /\ ts[i].status = "pending"
           /\ (\A p \in Procs : pc[p] # "t_save") => Len(ts) = tasksDone
           /\ \A p \in Procs :
                 (pc[p] = "t_done" /\ Truthy(task[p])) =>
                    /\ task[p].id = tasksDone
                    /\ task[p].status = "pending"
                    /\ resp[p].code = 200
                    /\ resp[p].body.task = task[p]
                    /\ ts[Len(ts)] = task[p]

C9_Witness ==
    /\ StoreWorked
    /\ tasksDone = 2
    /\ wakesDone >= 1
    /\ \E p \in Procs :
          /\ pc[p] = "t_done"
          /\ Truthy(task[p])
          /\ task[p].id = 2
          /\ Len(Stored(Writer).active_tasks) = 2

\* C11: a wake cycle never changes a task's stored status.  Every stored
\* task is still "pending" after any number of cycles, the backlog a cycle
\* stores is the backlog it loaded, and each cycle run on a backlog of k >= 1
\* pending tasks reports k completed tasks again and records one action.
C11_WakeLeavesTasksPending ==
    LET after == Get(Stored(Writer), "active_tasks", <<>>)
    IN  /\ \A i \in 1..Len(after) : after[i].status = "pending"
        /\ pc[Writer] = "w_done" =>
              LET before == Get(state_data[Writer], "active_tasks", <<>>)
                  h      == Stored(Writer).wake_history
                  k      == Len(after)
              IN  /\ after = before
                  /\ k = 0 => res[Writer].actions = <<>>
                  /\ k >= 1 => /\ res[Writer].actions = << <<"Completed", k, "tasks">> >>
                               /\ h[Len(h)].actions_count = 1

C11_Witness ==
    /\ pc[Writer] = "w_done"
    /\ wakesDone >= 3
    /\ Len(Stored(Writer).active_tasks) = 1
    /\ Stored(Writer).active_tasks[1].status = "pending"
    /\ LET h == Stored(Writer).wake_history
       IN  /\ Len(h) >= 3
           /\ h[Len(h)].actions_count = 1
           /\ h[Len(h) - 1].actions_count = 1
           /\ h[Len(h) - 2].actions_count = 1
    /\ res[Writer].actions = << <<"Completed", 1, "tasks">> >>

\* C12: with no durable backend, what _load_state returns to a handler is
\* the dict last passed to _save_state in that process, and the empty
\* mapping when the process has saved nothing yet.
C12_FallbackIsLastWriteRegister ==
    ~configured =>
       \A p \in Procs :
          (InWake(p) \/ InTask(p)) =>
             /\ state_data[p] = saved[p]
             /\ (wakesDone + tasksDone = 0 /\ nRestart = 0) => state_data[p] = EmptyMap

C12_Witness ==
    /\ ~configured
    /\ pc[Writer] = "inc"
    /\ nRestart >= 1
    /\ Truthy(saved[Writer])
    /\ saved[Writer].wake_count >= 1
    /\ state_data[Writer] = saved[Writer]

\* C13: with the backend configured, a load whose download (or client
\* construction) fails hands the handler the dict last passed to _save_state
\* in this process, the empty mapping if there is none, and the handler goes
\* on.
C13_FailedDownloadFallsBackToCache ==
    [][\A p \in Procs :
          (/\ configured
           /\ Idle(p)
           /\ pc'[p] \in {"inc", "t_save"}
           /\ nFail' = nFail + 1)
          => state_data'[p] = saved[p]]_vars

C13_Witness ==
    \E p \in Procs :
       /\ configured
       /\ pc[p] = "inc"
       /\ nFail >= 1
       /\ Truthy(saved[p])
       /\ state_data[p] = saved[p]
       /\ blob.exists
       /\ Durable # saved[p]

\* C14: _save_state returns normally whatever the upload does, and once it
\* has returned the cache of the process holds the dict it was given, also
\* when the upload failed or no client could be built.
C14_SaveKeepsCacheWhateverTheUpload ==
    \A p \in Procs :
       /\ (pc[p] = "w_done" \/ (pc[p] = "t_done" /\ Truthy(task[p]))) =>
             /\ mem[p] = to_dict(st[p])
             /\ mem[p] = saved[p]
             /\ resp[p].code = 200
       /\ Idle(p) => mem[p] = saved[p]

C14_Witness ==
    \E p \in Procs :
       /\ configured
       /\ pc[p] = "w_done"
       /\ nFail >= 1
       /\ blob.exists
       /\ mem[p] = to_dict(st[p])
       /\ Durable # mem[p]

\* C15: with the backend configured and no state blob, a load that reaches
\* the backend returns the empty mapping and the handler goes on; the wake
\* cycle run on it is a first run: default state, wake_number 1, a stored
\* history of one entry.
C15_MissingBlobIsFirstRun ==
    /\ [][\A p \in Procs :
             (/\ configured
              /\ ~blob.exists
              /\ Idle(p)
              /\ pc'[p] = "inc"
              /\ nFail' = nFail)
             => /\ state_data'[p] = EmptyMap
                /\ st'[p] = FreshState]_vars
    /\ [](\A p \in Procs :
             (configured /\ pc[p] = "w_done" /\ state_data[p] = EmptyMap) =>
                /\ res[p].wake_number = 1
                /\ saved[p].wake_count = 1
                /\ saved[p].active_tasks = <<>>
                /\ Len(saved[p].wake_history) = 1
                /\ saved[p].wake_history[1].wake_number = 1)

C15_Witness ==
    \E p \in Procs :
       /\ configured
       /\ nFail = 0
       /\ pc[p] = "w_done"
       /\ state_data[p] = EmptyMap
       /\ res[p].wake_number = 1
       /\ Durable.wake_count = 1

\* C16: every wake cycle that has started reaches its return, whatever its
\* load and its save met (success, missing blob, failed download or upload,
\* no client), and trigger_wake answers 200 with the result record.
C16_WakeAlwaysReturnsResults ==
    \A p \in Procs :
       InWake(p) ~> (/\ pc[p] = "w_done"
                     /\ resp[p].code = 200
                     /\ resp[p].body.success
                     /\ resp[p].body.wake_results = res[p]
                     /\ res[p].status = "healthy")

C16_Witness ==
    \E p \in Procs :
       /\ configured
       /\ pc[p] = "w_done"
       /\ nFail = 2
       /\ ~blob.exists
       /\ resp[p].code = 200
       /\ resp[p].body.wake_results.wake_number = 1

\* C17: the result record wake() returns has wake_number equal to the
\* incremented wake_count and timestamp equal to the last_wake set by that
\* cycle's increment, hence to the timestamp of the cycle's history entry.
C17_ResultTimestampIsLastWake ==
    pc["A"] = "ret" =>
       /\ res["A"].wake_number = st["A"].wake_count
       /\ res["A"].timestamp = st["A"].last_wake
       /\ res["A"].timestamp = WakeEntry(st["A"], res["A"]).timestamp

\* The part of C17 about the number alone
ResultNumberIsWakeCount ==
    pc["A"] = "ret" => res["A"].wake_number = st["A"].wake_count

\* C18: a phase of wake() that raises is contained: wake() does not let the
\* exception out, it goes on to the later phases and returns a result.
C18_PhaseFailureIsContained ==
    \A p \in Procs : pc[p] # "raised"

\* C19: the store is written only by the final save.  While a wake cycle
\* has not reached the end of _save_state the cache of its process is as it
\* was before the cycle (the dict last saved there), and the blob changes
\* at no step but a save.
C19_StoreWrittenOnlyByFinalSave ==
    /\ [](\A p \in Procs : InWake(p) => mem[p] = saved[p])
    /\ [][blob' # blob =>
             \E p \in Procs : /\ pc[p] \in {"save", "t_save"}
                              /\ pc'[p] \in {"w_done", "t_done"}]_vars

\* What does hold of C19: the blob changes at saves only, and the cache is
\* untouched up to the call of record_wake.
StoreUntouchedUntilRecordWake ==
    /\ [](\A p \in Procs : InLocal(p) => mem[p] = saved[p])
    /\ [][blob' # blob =>
             \E p \in Procs : /\ pc[p] \in {"save", "t_save"}
                              /\ pc'[p] \in {"w_done", "t_done"}]_vars

\* C20: GET /history answers with the last Min(10, n) entries of the stored
\* wake_history in stored order and with n as total_wakes (an empty list and
\* 0 when nothing is stored), and leaves the blob and the cache as they are.
C20_HistoryReturnsLastTen ==
    /\ [](pc[Writer] = "h_done" =>
             LET h == Get(Stored(Writer), "wake_history", <<>>)
             IN  /\ resp[Writer].code = 200
                 /\ IsTailOf(resp[Writer].body.recent_wakes, h, RecentWakes)
                 /\ resp[Writer].body.total_wakes = Len(h)
                 /\ ~Truthy(Stored(Writer)) =>
                       /\ resp[Writer].body.recent_wakes = <<>>
                       /\ resp[Writer].body.total_wakes = 0)
    /\ [][(pc[Writer] = "idle" /\ pc'[Writer] = "h_done") =>
             (blob' = blob /\ mem' = mem)]_vars

C20_Witness ==
    /\ pc[Writer] = "h_done"
    /\ wakesDone > HistoryCap
    /\ Len(Stored(Writer).wake_history) = HistoryCap
    /\ resp[Writer].body.total_wakes = HistoryCap
    /\ Len(resp[Writer].body.recent_wakes) = RecentWakes
    /\ resp[Writer].body.recent_wakes[1] =
          Stored(Writer).wake_history[HistoryCap - RecentWakes + 1]
    /\ resp[Writer].body.recent_wakes[RecentWakes].wake_number = wakesDone

\* C21: a record_wake(results) call appends exactly one entry at the end of
\* wake_history, with wake_number the current wake_count, timestamp the
\* current last_wake, actions_count the number of actions of results and the
\* status of results; the entries already there and the other fields of the
\* state are unchanged.
C21_RecordWakeAppendsOneEntry ==
    [][(pc["A"] = "ret" /\ pc'["A"] = "unit" /\ st'["A"] # st["A"]) =>
          LET h  == st["A"].wake_history
              h2 == st'["A"].wake_history
          IN  /\ Len(h2) = Len(h) + 1
              /\ SubSeq(h2, 1, Len(h)) = h
              /\ h2[Len(h2)].wake_number = st["A"].wake_count
              /\ h2[Len(h2)].timestamp = st["A"].last_wake
              /\ h2[Len(h2)].actions_count = Len(res["A"].actions)
              /\ h2[Len(h2)].status = res["A"].status
              /\ st'["A"].wake_count = st["A"].wake_count
              /\ st'["A"].last_wake = st["A"].last_wake
              /\ st'["A"].active_tasks = st["A"].active_tasks
              /\ st'["A"].capabilities = st["A"].capabilities]_vars

C21_Witness ==
    LET h == st["A"].wake_history
    IN  /\ pc["A"] = "unit"
        /\ wakesDone = 1
        /\ Len(h) > HistoryCap
        /\ st["A"].wake_count = 1
        /\ h[Len(h)].wake_number = 1
        /\ h[Len(h)].timestamp = st["A"].last_wake
        /\ h[Len(h)].status = "healthy"

RECURSIVE IsSubseq(_, _)
\* a is b with some entries left out
IsSubseq(a, b) ==
    IF a = <<>> THEN TRUE
    ELSE IF b = <<>> THEN FALSE
    ELSE IF Head(a) = Head(b) THEN IsSubseq(Tail(a), Tail(b))
    ELSE IsSubseq(a, Tail(b))

\* C22: the durably stored backlog never shrinks: across any single-writer
\* run of wake cycles, task creations, restarts and transient load and save
\* failures, every task of the stored active_tasks is still there, in the
\* same relative order, after every later save.
C22_StoredBacklogNeverShrinks ==
    [][IsSubseq(Get(Durable, "active_tasks", <<>>),
                Get(Durable', "active_tasks", <<>>))]_vars

\* C23: two task creations that both load the stored state before either
\* saves compute the same id, the loaded backlog length plus one, and both
\* answer success with it; once both have saved, the stored backlog is the
\* loaded one followed by one task only, that of one of the two saves.
C23_OverlappingTasksShareAnId ==
    \A p \in Procs : \A q \in Procs \ {p} :
       (/\ configured /\ StoreWorked
        /\ pc[p] = "t_done" /\ pc[q] = "t_done"
        /\ Truthy(task[p]) /\ Truthy(task[q])
        /\ state_data[p] = state_data[q])
       => LET base == AgentState(state_data[p]).active_tasks
          IN  /\ task[p].id = Len(base) + 1
              /\ task[q].id = task[p].id
              /\ resp[p].code = 200 /\ resp[q].code = 200
              /\ resp[p].body.success /\ resp[q].body.success
              /\ resp[p].body.task.id = resp[q].body.task.id
              /\ Len(Durable.active_tasks) = Len(base) + 1
              /\ SubSeq(Durable.active_tasks, 1, Len(base)) = base
              /\ Durable.active_tasks[Len(base) + 1] \in {task[p], task[q]}
              /\ Durable \in {saved[p], saved[q]}

C23_Witness ==
    /\ configured /\ StoreWorked
    /\ pc["A"] = "t_done" /\ pc["B"] = "t_done"
    /\ Truthy(task["A"]) /\ Truthy(task["B"])
    /\ state_data["A"] = state_data["B"]
    /\ task["A"] # task["B"]
    /\ task["A"].id = task["B"].id
    /\ tasksDone = 2
    /\ Len(Durable.active_tasks) = 1
    /\ Durable.active_tasks[1] = task["B"]

\* C24: with a single writer and a working store, a wake cycle changes the
\* stored wake_count, last_wake and wake_history and leaves active_tasks and
\* capabilities as they were; a successful task creation appends to
\* active_tasks and leaves the other four fields as they were; GET /status,
\* GET /history and GET /metrics (and a task creation that is turned down)
\* change nothing.
C24_OnlyWakeAndTaskMutateTheirFields ==
    /\ [][(Idle(Writer) /\ pc'[Writer] \in {"inc", "t_save"}) =>
             state_data'[Writer] = Stored(Writer)]_vars
    /\ [](pc[Writer] = "w_done" =>
             LET b == AgentState(state_data[Writer])
                 a == AgentState(Stored(Writer))
             IN  /\ a.active_tasks = b.active_tasks
                 /\ a.capabilities = b.capabilities
                 /\ a.wake_count = b.wake_count + 1
                 /\ a.last_wake = st[Writer].last_wake
                 /\ a.wake_history = Append(b.wake_history, WakeEntry(st[Writer], res[Writer])))
    /\ []((pc[Writer] = "t_done" /\ Truthy(task[Writer])) =>
             LET b == AgentState(state_data[Writer])
                 a == AgentState(Stored(Writer))
             IN  /\ a.active_tasks = Append(b.active_tasks, task[Writer])
                 /\ a.wake_count = b.wake_count
                 /\ a.last_wake = b.last_wake
                 /\ a.wake_history = b.wake_history
                 /\ a.capabilities = b.capabilities)
    /\ [][(Idle(Writer) /\ pc'[Writer] \in {"s_done", "h_done", "m_done", "t_done"}) =>
             (blob' = blob /\ mem' = mem)]_vars

C24_Witness ==
    /\ pc[Writer] = "w_done"
    /\ tasksDone = 1
    /\ wakesDone = 2
    /\ Len(Stored(Writer).active_tasks) = 1
    /\ Stored(Writer).wake_count = 2
    /\ Stored(Writer).last_wake > state_data[Writer].last_wake

\* The step of wake() that follows step s
NextPhase(s) ==
    CASE s = "inc"     -> "res"
      [] s = "res"     -> "msg"
      [] s = "msg"     -> "tasks"
      [] s = "tasks"   -> "impr"
      [] s = "impr"    -> "metrics"
      [] s = "metrics" -> "ret"

\* C25: a wake() invocation follows one linear path: increment, results,
\* message check, task execution, improvement check, metrics update, each
\* once and in that order, never back; the counter moves at the increment
\* only, by one, and no action is reported before it.
C25_WakeFollowsOneLinearPath ==
    [][\A p \in Procs :
          /\ (InLocal(p) /\ pc[p] # "ret" /\ pc'[p] # pc[p]) => pc'[p] = NextPhase(pc[p])
          /\ (InLocal(p) /\ pc[p] # "ret" /\ pc'[p] # pc[p]
              /\ st'[p].wake_count # st[p].wake_count) =>
                 /\ pc[p] = "inc"
                 /\ st'[p].wake_count = st[p].wake_count + 1
          /\ (pc[p] = "inc" /\ pc'[p] = "res") =>
                 /\ st'[p].wake_count = st[p].wake_count + 1
                 /\ ~Truthy(res'[p])
          /\ (InLocal(p) /\ res'[p] # res[p] /\ pc'[p] # "idle") =>
                 /\ pc[p] \in {"res", "msg", "tasks", "impr"}
                 /\ res'[p].wake_number = st[p].wake_count]_vars

C25_Witness ==
    \E p \in Procs :
       /\ pc[p] = "ret"
       /\ wakesDone >= 1
       /\ st[p].wake_count = 2
       /\ res[p].wake_number = 2
       /\ Len(res[p].actions) = 1

\* x is a coherent state dict: the wake_numbers of its history are
\* consecutive and end at its wake_count, the history has
\* Min(wake_count, 100) entries, the last entry carries last_wake, and
\* wake_count is 0 exactly when last_wake is null.  The empty dict, no stored
\* state, is coherent.
Coherent(x) ==
    Truthy(x) =>
       LET h == x.wake_history
       IN  /\ Len(h) = Min(x.wake_count, HistoryCap)
           /\ \A i \in 1..Len(h) : h[i].wake_number = x.wake_count - Len(h) + i
           /\ Len(h) > 0 => h[Len(h)].timestamp = x.last_wake
           /\ (x.wake_count = 0) <=> (x.last_wake = Null)

\* C26: from no stored state, under any interleaving of wake cycles and task
\* creations and any storage failures and restarts, every stored state is
\* coherent: the blob always, and the cache of a process whenever no handler
\* of the process is between its load and its save.
C26_StoredStateIsCoherent ==
    /\ Coherent(Durable)
    /\ \A p \in Procs : Coherent(saved[p])
    /\ \A p \in Procs :
          pc[p] \in {"idle", "w_done", "t_done"} => Coherent(mem[p])

\* Two cycles done, one of them counted in the blob, after a storage fault,
\* with a process whose cache holds another state than the blob.
C26_Witness ==
    /\ configured
    /\ nFail >= 1
    /\ wakesDone = 2
    /\ blob.exists
    /\ Durable.wake_count = 1
    /\ Len(Durable.wake_history) = 1
    /\ Durable.wake_history[1].timestamp = Durable.last_wake
    /\ \E p \in Procs : Idle(p) /\ Truthy(mem[p]) /\ mem[p] # Durable

\* C27: with a single writer and a working store, after N wake cycles
\* GET /history reports total_wakes = Min(N, 100) and GET /status reports
\* wake_count = N, so the two reports agree for N <= 100 and differ for
\* every N > 100.
C27_HistoryTotalIsNotWakeCount ==
    /\ pc[Writer] = "s_done" => resp[Writer].body.wake_count = wakesDone
    /\ pc[Writer] = "h_done" => resp[Writer].body.total_wakes = Min(wakesDone, HistoryCap)
    /\ Idle(Writer) =>
          ((HistoryBody(Stored(Writer)).total_wakes
               = StatusBody(AgentState(Stored(Writer))).wake_count)
           <=> wakesDone <= HistoryCap)

C27_Witness ==
    /\ pc[Writer] = "s_done"
    /\ wakesDone = HistoryCap + 1
    /\ resp[Writer].body.wake_count = HistoryCap + 1
    /\ HistoryBody(Stored(Writer)).total_wakes = HistoryCap

\* C28: with a backend configured, a load that reaches the backend returns
\* what the blob holds, the empty mapping if there is no blob, whatever the
\* process saved last: the cache is not consulted, so a state whose upload
\* failed is not what the next operation works on.
C28_CacheIsReadOnlyOnDownloadFailure ==
    [][\A p \in Procs :
          (/\ configured
           /\ Idle(p)
           /\ pc'[p] \in {"inc", "t_save"}
           /\ nFail' = nFail)
          => state_data'[p] = Durable]_vars

\* A second wake cycle reports wake_number 1: the first one's upload failed
\* and the second one's load found no blob.
C28_Witness ==
    \E p \in Procs :
       /\ configured
       /\ nFail = 1
       /\ nRestart = 0
       /\ wakesDone = 2
       /\ pc[p] = "w_done"
       /\ state_data[p] = EmptyMap
       /\ res[p].wake_number = 1
       /\ \A q \in Procs \ {p} : ~Truthy(saved[q])

\* C29: when a task creation and a wake cycle both load the stored state
\* before either saves, both answer success and the later save replaces the
\* earlier one: the blob ends as one of the two saved dicts, of which the
\* wake's has the loaded backlog without the new task and the task
\* creation's has the loaded wake_count and history without the wake's
\* increment and entry.
C29_TaskAndWakeOverwriteEachOther ==
    \A p \in Procs : \A q \in Procs \ {p} :
       (/\ configured /\ StoreWorked
        /\ pc[p] = "w_done"
        /\ pc[q] = "t_done" /\ Truthy(task[q])
        /\ state_data[p] = state_data[q])
       => LET base == AgentState(state_data[p])
          IN  /\ resp[p].code = 200 /\ resp[p].body.success
              /\ resp[q].code = 200 /\ resp[q].body.success
              /\ Durable \in {saved[p], saved[q]}
              /\ saved[p].active_tasks = base.active_tasks
              /\ saved[p].wake_count = base.wake_count + 1
              /\ Len(saved[p].wake_history) = Len(base.wake_history) + 1
              /\ saved[q].active_tasks = Append(base.active_tasks, task[q])
              /\ saved[q].wake_count = base.wake_count
              /\ saved[q].wake_history = base.wake_history

\* The wake cycle saved last: the task answered with is not stored.
C29_Witness ==
    /\ configured /\ StoreWorked
    /\ pc["A"] = "w_done"
    /\ pc["B"] = "t_done" /\ Truthy(task["B"])
    /\ state_data["A"] = state_data["B"]
    /\ resp["B"].body.task.id = 1
    /\ Durable = saved["A"]
    /\ Durable.active_tasks = <<>>
    /\ Durable.wake_count = 1

\* The task creation saved last: the wake's increment is not stored.
TaskSavedLast ==
    /\ configured /\ StoreWorked
    /\ pc["A"] = "w_done"
    /\ pc["B"] = "t_done" /\ Truthy(task["B"])
    /\ state_data["A"] = state_data["B"]
    /\ resp["A"].body.wake_results.wake_number = 1
    /\ Durable = saved["B"]
    /\ Durable.wake_count = 0
    /\ Durable.wake_history = <<>>

\* C30: on an MCPIntegration instance, whatever the sequence of connect and
\* call_tool calls: call_tool reaches a server only when the server is
\* registered and its status is "connected" when the call is made, and
\* returns an error dict otherwise; a status changes only when a connect()
\* on that server returns, to "connected" when it succeeds (always for a
\* local server, on a 200 health answer for a remote one) and to "error"
\* when a remote connect fails; connect() on an unknown name returns False;
\* neither it nor call_tool changes any status.
C30_ToolCallsNeedConnectedServer ==
    [][LET r == mcp'.last
           n == r.name
       IN  /\ (mcp'.nDone # mcp.nDone /\ r.op = "call") =>
                 /\ servers' = servers
                 /\ mcp'.nStarted # mcp.nStarted =>
                       /\ r.performed <=> IsConnected(n)
                       /\ ~r.performed => "error" \in DOMAIN r.result
           /\ \A c \in mcp'.inflight \ mcp.inflight :
                 c.op = "call" => (IsConnected(c.name) /\ servers' = servers)
           /\ (mcp'.nDone # mcp.nDone /\ r.op = "connect") =>
                 IF n \notin DefaultServers
                 THEN ~r.ok /\ servers' = servers
                 ELSE /\ \A m \in DefaultServers \ {n} : servers'[m] = servers[m]
                      /\ r.ok <=> (IsLocal(n) \/ r.health = "200")
                      /\ servers'[n] = IF r.ok THEN "connected" ELSE "error"
           /\ servers' # servers => (mcp'.nDone # mcp.nDone /\ r.op = "connect")]_vars

\* A call on the remote server is turned down after a failed connect left
\* it in "error", while a local server is connected.
C30_Witness ==
    /\ servers["n8n"] = "error"
    /\ servers["playwright"] = "connected"
    /\ mcp.last.op = "call"
    /\ mcp.last.name = "n8n"
    /\ ~mcp.last.performed
    /\ "error" \in DOMAIN mcp.last.result
    /\ mcp.nDone = MaxMcpOps

=============================================================================
